---- MODULE Spec2Model ----
(***************************************************************************)
(* Model of src/tasks/create-netsec-config.ts: the certificate-pinning     *)
(* patcher (disableCertificatePinning / processSmaliFile).                  *)
(*                                                                         *)
(* Text representation.  A file content is the sequence of its lines as    *)
(* content.split('\n') yields them (so a content ending in a newline has   *)
(* an empty last line).  A line is a sequence of atoms; an atom is a       *)
(* non-empty run of characters.  The atoms keep apart exactly the pieces   *)
(* the code tells apart: the four-space indentation, a single space, the   *)
(* carriage return, the pieces of a method header, `.end method`, and      *)
(* opaque instruction text.                                                *)
(***************************************************************************)
EXTENDS Naturals, Sequences, FiniteSets

VARIABLES
    os,               \* os.type() of the host
    input,            \* ghost: the content of every file before the run
    disk,             \* the content of every file now
    pending,          \* files the glob stream has not yielded yet
    pc,               \* position of disableCertificatePinning
    cur,              \* filePath of the current iteration (0: none)
    originalContent,  \* local of processSmaliFile
    patchedContent,   \* local of processSmaliFile
    results,          \* per file: what processSmaliFile returned
    pinningFound,     \* local of disableCertificatePinning
    skipped,          \* task.skip was called
    log,              \* the messages passed to next(), in order
    reads,            \* ghost: fs.readFile calls per file
    writes,           \* ghost: fs.writeFile calls per file
    matches           \* ghost: per file, the matches the replace callbacks saw

vars == <<os, input, disk, pending, pc, cur, originalContent, patchedContent,
          results, pinningFound, skipped, log, reads, writes, matches>>

-----------------------------------------------------------------------------
(* Bounds of the model *)

MaxMethods == 3
MaxLines == 5
MaxFiles == 3

-----------------------------------------------------------------------------
(* Atoms *)

SP4 == "    "
SP == " "
CR == "\r"
Whitespace == {SP4, SP, CR}

METHOD_PUBLIC == ".method public "
FINAL == "final "
END_METHOD == ".end method"

INTERFACE_LINE == ".implements Ljavax/net/ssl/X509TrustManager;"

\* each signature as <<method name, descriptor>>
METHOD_SIGNATURES ==
    << <<"checkClientTrusted", "([Ljava/security/cert/X509Certificate;Ljava/lang/String;)V">>,
       <<"checkServerTrusted", "([Ljava/security/cert/X509Certificate;Ljava/lang/String;)V">>,
       <<"getAcceptedIssuers", "()[Ljava/security/cert/X509Certificate;">> >>

RETURN_VOID_FIX == << <<".locals 0">>, <<"return-void">> >>

RETURN_EMPTY_ARRAY_FIX ==
    << <<".locals 1">>,
       <<"const/4 v0, 0x0">>,
       <<"new-array v0, v0, [Ljava/security/cert/X509Certificate;">>,
       <<"return-object v0">> >>

INSERTED_MARKER == <<"#", SP, "inserted by apk-mitm to disable certificate pinning">>
COMMENTED_MARKER == <<"#", SP, "commented out by apk-mitm to disable old method body">>

-----------------------------------------------------------------------------
(* String helpers *)

Min(S) == CHOOSE x \in S : \A y \in S : x <= y
Max(S) == CHOOSE x \in S : \A y \in S : y <= x

\* String.prototype.trimEnd
TrimEnd(line) ==
    LET keep == {j \in 1..Len(line) : line[j] \notin Whitespace}
    IN  IF keep = {} THEN <<>> ELSE SubSeq(line, 1, Max(keep))

\* line.replace(/^    /, '')
StripIndent(line) ==
    IF Len(line) > 0 /\ line[1] = SP4 THEN Tail(line) ELSE line

\* String.prototype.includes, for a needle that is one atom
Includes(line, atom) == \E j \in 1..Len(line) : line[j] = atom

\* originalContent.replace(/\r\n/g, '\n'): a CR right before a line break goes
NormalizeCRLF(content) ==
    [j \in 1..Len(content) |->
        IF j < Len(content) /\ Len(content[j]) > 0 /\ content[j][Len(content[j])] = CR
        THEN SubSeq(content[j], 1, Len(content[j]) - 1)
        ELSE content[j]]

\* patchedContent.replace(/\n/g, '\r\n'): every line break gets a CR
RestoreCRLF(content) ==
    [j \in 1..Len(content) |->
        IF j < Len(content) THEN Append(content[j], CR) ELSE content[j]]

\* mutant of IsCandidate: the interface check is left out
IsCandidate_Always(content) == TRUE

\* originalContent.includes(INTERFACE_LINE)
IsCandidate(content) ==
    \E j \in 1..Len(content) : Includes(content[j], INTERFACE_LINE)

-----------------------------------------------------------------------------
(* METHOD_PATTERNS[p]:                                                     *)
(*   (\.method public (?:final )?SIG)\n([^]+?)\n(\.end method)   flag g    *)
(* The pattern is not anchored: the header may start in the middle of a    *)
(* line but must run up to the line break; `.end method` must start a      *)
(* line; the body is lazy and at least one character long.                 *)

\* length in atoms of the header of pattern p that ends `line`, 0 if none
HeaderLen(line, p) ==
    LET plain == <<METHOD_PUBLIC>> \o METHOD_SIGNATURES[p]
        final == <<METHOD_PUBLIC, FINAL>> \o METHOD_SIGNATURES[p]
        Ends(h) == /\ Len(line) >= Len(h)
                   /\ SubSeq(line, Len(line) - Len(h) + 1, Len(line)) = h
    IN  IF Ends(final) THEN Len(final)
        ELSE IF Ends(plain) THEN Len(plain)
        ELSE 0

StartsWithEnd(line) == Len(line) > 0 /\ line[1] = END_METHOD

\* mutant of Closing: a greedy body, up to the last `.end method`
Closing_Greedy(T, i) ==
    LET ks == {k \in (i + 2)..Len(T) :
                   /\ StartsWithEnd(T[k])
                   /\ (k > i + 2 \/ T[i + 1] # <<>>)}
    IN  IF ks = {} THEN 0 ELSE Max(ks)

\* index of the line holding the `.end method` that closes a header at line
\* i, 0 if none: the first `\n.end method` that leaves the body at least one
\* character (the line break after the header is not the body's)
Closing(T, i) ==
    LET ks == {k \in (i + 2)..Len(T) :
                   /\ StartsWithEnd(T[k])
                   /\ (k > i + 2 \/ T[i + 1] # <<>>)}
    IN  IF ks = {} THEN 0 ELSE Min(ks)

\* first line at or after `from` where pattern p matches, 0 if none
MatchAt(T, p, from) ==
    LET is == {i \in from..Len(T) : HeaderLen(T[i], p) > 0 /\ Closing(T, i) > 0}
    IN  IF is = {} THEN 0 ELSE Min(is)

-----------------------------------------------------------------------------
(* The replace callback, lines 110-135 *)

\* mutant of BodyLines: the indentation is not removed
BodyLines_KeepIndent(body) == body

\* body.split('\n').map(line => line.replace(/^    /, ''))
BodyLines(body) == [j \in 1..Len(body) |-> StripIndent(body[j])]

\* mutant of FixLinesFor: every method gets the void return
FixLinesFor_AlwaysVoid(openingLine) == RETURN_VOID_FIX

FixLinesFor(openingLine) ==
    IF Includes(openingLine, "getAcceptedIssuers")
    THEN RETURN_EMPTY_ARRAY_FIX
    ELSE RETURN_VOID_FIX

\* mutant of PatchedBodyLines: no blank line after the instructions
PatchedBodyLines_NoSeparator(fixLines, bodyLines) ==
    <<INSERTED_MARKER>> \o fixLines
        \o << COMMENTED_MARKER, <<"#", SP>> >>
        \o [j \in 1..Len(bodyLines) |-> <<"#", SP>> \o bodyLines[j]]

PatchedBodyLines(fixLines, bodyLines) ==
    <<INSERTED_MARKER>> \o fixLines
        \o << <<>>, COMMENTED_MARKER, <<"#", SP>> >>
        \o [j \in 1..Len(bodyLines) |-> <<"#", SP>> \o bodyLines[j]]

Indented(lines) == [j \in 1..Len(lines) |-> <<SP4>> \o lines[j]]
Trimmed(lines) == [j \in 1..Len(lines) |-> TrimEnd(lines[j])]

\* the lines of the string the callback returns
Replacement(openingLine, body, closingLine) ==
    Trimmed(<<openingLine>>
              \o Indented(PatchedBodyLines(FixLinesFor(openingLine), BodyLines(body)))
              \o <<closingLine>>)

\* group 1 of a match whose header is the last hl atoms of `line`
OpeningLine(line, hl) == SubSeq(line, Len(line) - hl + 1, Len(line))

\* T with the match from the header in line i to the `.end method` in line k
\* replaced by the lines rep: what stands before the header in line i and
\* after `.end method` in line k stays
Spliced(T, i, k, hl, rep) ==
    SubSeq(T, 1, i - 1)
      \o [j \in 1..Len(rep) |->
            IF j = 1 THEN SubSeq(T[i], 1, Len(T[i]) - hl) \o rep[1]
            ELSE IF j = Len(rep) THEN rep[j] \o Tail(T[k])
            ELSE rep[j]]
      \o SubSeq(T, k + 1, Len(T))

\* ghost: own[j] is the pattern that wrote line j, 0 for a line of the input
Owned(own, p, i, k, n) ==
    SubSeq(own, 1, i - 1) \o [j \in 1..n |-> p] \o SubSeq(own, k + 1, Len(own))

\* ghost: what the callback was called with
MatchRecord(T, own, p, i, k, hl) ==
    [pattern |-> p,
     opening |-> OpeningLine(T[i], hl),
     body |-> SubSeq(T, i + 1, k - 1),
     fix |-> FixLinesFor(OpeningLine(T[i], hl)),
     midline |-> Len(T[i]) > hl,
     overlap |-> \E j \in i..k : own[j] # 0]

WithMatches(ms, rest) ==
    [text |-> rest.text, own |-> rest.own, matches |-> ms \o rest.matches]

\* patchedContent.replace(pattern, callback) from line `from` on.  The scan
\* resumes after the `.end method` of a match; no line of the model carries a
\* header after `.end method`, so it resumes at the next line.
RECURSIVE ReplaceFrom(_, _, _, _)

ReplaceMatch(T, own, p, i, k, hl, rep) ==
    WithMatches(<<MatchRecord(T, own, p, i, k, hl)>>,
                ReplaceFrom(Spliced(T, i, k, hl, rep),
                            Owned(own, p, i, k, Len(rep)),
                            p, i + Len(rep)))

CallbackAt(T, own, p, i, k, hl) ==
    ReplaceMatch(T, own, p, i, k, hl,
                 Replacement(OpeningLine(T[i], hl), SubSeq(T, i + 1, k - 1), <<END_METHOD>>))

ReplaceAt(T, own, p, i) ==
    IF i = 0 THEN [text |-> T, own |-> own, matches |-> <<>>]
    ELSE CallbackAt(T, own, p, i, Closing(T, i), HeaderLen(T[i], p))

ReplaceFrom(T, own, p, from) == ReplaceAt(T, own, p, MatchAt(T, p, from))

\* for (const pattern of METHOD_PATTERNS) ..., from pattern p on
RECURSIVE ApplyPatterns(_, _, _)

ThenPatterns(r, p) == WithMatches(r.matches, ApplyPatterns(r.text, r.own, p + 1))

ApplyPatterns(T, own, p) ==
    IF p > Len(METHOD_SIGNATURES) THEN [text |-> T, own |-> own, matches |-> <<>>]
    ELSE ThenPatterns(ReplaceFrom(T, own, p, 1), p)

\* lines 100-103
Normalized(content, osType) ==
    IF osType = "Windows_NT" THEN NormalizeCRLF(content) ELSE content

\* lines 139-149: what processSmaliFile writes and returns, r being the
\* outcome of the loop over the patterns
Outcome(content, osType, normalized, r) ==
    [changed |-> IsCandidate(content) /\ normalized # r.text,
     original |-> normalized,
     content |-> IF ~(IsCandidate(content) /\ normalized # r.text) THEN content
                 ELSE IF osType = "Windows_NT" THEN RestoreCRLF(r.text)
                 ELSE r.text,
     matches |-> IF IsCandidate(content) THEN r.matches ELSE <<>>]

PatchNormalized(content, osType, normalized) ==
    Outcome(content, osType, normalized,
            ApplyPatterns(normalized, [j \in 1..Len(normalized) |-> 0], 1))

\* what processSmaliFile makes of a content it has read, on host osType
PatchResult(content, osType) ==
    PatchNormalized(content, osType, Normalized(content, osType))

-----------------------------------------------------------------------------
(* Inputs *)

Header(p) == <<METHOD_PUBLIC>> \o METHOD_SIGNATURES[p]
FinalHeader(p) == <<METHOD_PUBLIC, FINAL>> \o METHOD_SIGNATURES[p]
OtherHeader == <<METHOD_PUBLIC, "verify", "()V">>
Insn == <<SP4, "invoke-static {}, Lpin;->check()V">>
DeepInsn == <<SP4, SP4, "throw v0", SP>>

\* method bodies of a decompiled class: never empty
ShortBody == <<Insn>>
LongBody == <<Insn, <<>>, DeepInsn>>

Method(header, body) == <<header>> \o body \o << <<END_METHOD>> >>

\* the methods of a decompiled class: the targets, final or not, and another
Methods ==
    { Method(Header(1), ShortBody),
      Method(FinalHeader(1), LongBody),
      Method(Header(2), LongBody),
      Method(FinalHeader(2), ShortBody),
      Method(Header(3), ShortBody),
      Method(FinalHeader(3), LongBody),
      Method(OtherHeader, LongBody) }

RECURSIVE Flatten(_)
Flatten(ss) == IF ss = <<>> THEN <<>> ELSE Head(ss) \o Flatten(Tail(ss))

SeqsUpTo(S, n) == UNION {[1..m -> S] : m \in 0..n}

\* line breaks: every line but the last ends in eol
WithEol(lines, eol) ==
    [j \in 1..Len(lines) |->
        IF j < Len(lines) /\ eol = "CRLF" THEN Append(lines[j], CR) ELSE lines[j]]

ClassLine == <<".class public Lcom/example/Pinner;">>

\* a well-formed class file: class line, maybe the interface line, methods
ClassFile(iface, methods, eol) ==
    WithEol(<<ClassLine>> \o (IF iface THEN << <<INTERFACE_LINE>> >> ELSE <<>>)
              \o Flatten(methods) \o << <<>> >>, eol)

ClassFiles ==
    {ClassFile(iface, ms, eol) :
        iface \in BOOLEAN, ms \in SeqsUpTo(Methods, MaxMethods), eol \in {"LF", "CRLF"}}

\* any text: lines in any order
AnyLines == {Header(2), Header(3), OtherHeader, <<END_METHOD>>, Insn, <<>>}

AnyTexts ==
    {(IF iface THEN << <<INTERFACE_LINE>> >> ELSE <<>>) \o ls \o << <<>> >> :
        iface \in BOOLEAN, ls \in SeqsUpTo(AnyLines, MaxLines)}

\* the files of a run over several files
RunFiles ==
    {ClassFile(iface, ms, "LF") :
        iface \in BOOLEAN,
        ms \in { <<>>,
                 << Method(Header(1), ShortBody) >>,
                 << Method(OtherHeader, ShortBody) >> }}

Hosts == {"Windows_NT", "Linux"}

-----------------------------------------------------------------------------
(* State machine *)

Files == DOMAIN disk

InitWith(contents, counts) ==
    /\ os \in Hosts
    /\ \E n \in counts : disk \in [1..n -> contents]
    /\ input = disk
    /\ pending = DOMAIN disk
    /\ pc = "start"
    /\ cur = 0
    /\ originalContent = <<>>
    /\ patchedContent = <<>>
    /\ results = [f \in DOMAIN disk |-> "none"]
    /\ pinningFound = FALSE
    /\ skipped = FALSE
    /\ log = <<>>
    /\ reads = [f \in DOMAIN disk |-> 0]
    /\ writes = [f \in DOMAIN disk |-> 0]
    /\ matches = [f \in DOMAIN disk |-> <<>>]

Init == InitWith(ClassFiles, {1})
InitAnyText == InitWith(AnyTexts, {1})
InitRun == InitWith(RunFiles, 0..MaxFiles)

\* lines 70-72
Scan ==
    /\ pc = "start"
    /\ pinningFound' = FALSE
    /\ log' = Append(log, <<"Scanning Smali files...">>)
    /\ pc' = "loop"
    /\ UNCHANGED <<os, input, disk, pending, cur, originalContent, patchedContent,
                   results, skipped, reads, writes, matches>>

\* lines 73-77 and 95: the stream yields a path, processSmaliFile reads it
ReadFile(f) ==
    /\ pc = "loop"
    /\ f \in pending
    /\ pending' = pending \ {f}
    /\ cur' = f
    /\ originalContent' = disk[f]
    /\ reads' = [reads EXCEPT ![f] = @ + 1]
    /\ pc' = "read"
    /\ UNCHANGED <<os, input, disk, patchedContent, results, pinningFound, skipped,
                   log, writes, matches>>

\* line 98
ReturnNotCandidate ==
    /\ pc = "read"
    /\ ~IsCandidate(originalContent)
    /\ results' = [results EXCEPT ![cur] = "false"]
    /\ pc' = "returned"
    /\ UNCHANGED <<os, input, disk, pending, cur, originalContent, patchedContent,
                   pinningFound, skipped, log, reads, writes, matches>>

\* r is what the patch step made of originalContent
Patched(r) ==
    /\ originalContent' = r.original
    /\ patchedContent' = r.content
    /\ matches' = [matches EXCEPT ![cur] = r.matches]
    /\ IF r.changed
       THEN pc' = "write" /\ UNCHANGED results
       ELSE pc' = "returned" /\ results' = [results EXCEPT ![cur] = "false"]

\* lines 100-143 and 149
PatchMethods ==
    /\ pc = "read"
    /\ IsCandidate(originalContent)
    /\ Patched(PatchResult(originalContent, os))
    /\ UNCHANGED <<os, input, disk, pending, cur, pinningFound, skipped, log,
                   reads, writes>>

\* lines 145-146
WriteFile ==
    /\ pc = "write"
    /\ disk' = [disk EXCEPT ![cur] = patchedContent]
    /\ writes' = [writes EXCEPT ![cur] = @ + 1]
    /\ results' = [results EXCEPT ![cur] = "true"]
    /\ pc' = "returned"
    /\ UNCHANGED <<os, input, pending, cur, originalContent, patchedContent,
                   pinningFound, skipped, log, reads, matches>>

\* mutant of Report: pinningFound is not set
Report_ForgetsFlag ==
    /\ pc = "returned"
    /\ IF results[cur] = "true"
       THEN log' = Append(log, <<"Applied patch in", cur>>)
       ELSE UNCHANGED log
    /\ pc' = "loop"
    /\ UNCHANGED <<os, input, disk, pending, cur, originalContent, patchedContent,
                   results, pinningFound, skipped, reads, writes, matches>>

\* lines 78-83
Report ==
    /\ pc = "returned"
    /\ IF results[cur] = "true"
       THEN /\ pinningFound' = TRUE
            /\ log' = Append(log, <<"Applied patch in", cur>>)
       ELSE UNCHANGED <<pinningFound, log>>
    /\ pc' = "loop"
    /\ UNCHANGED <<os, input, disk, pending, cur, originalContent, patchedContent,
                   results, skipped, reads, writes, matches>>

\* line 86, once the stream has ended
Finish ==
    /\ pc = "loop"
    /\ pending = {}
    /\ skipped' = ~pinningFound
    /\ pc' = "done"
    /\ UNCHANGED <<os, input, disk, pending, cur, originalContent, patchedContent,
                   results, pinningFound, log, reads, writes, matches>>

Next ==
    \/ Scan
    \/ \E f \in Files : ReadFile(f)
    \/ ReturnNotCandidate
    \/ PatchMethods
    \/ WriteFile
    \/ Report
    \/ Finish

Spec == Init /\ [][Next]_vars
SpecAnyText == InitAnyText /\ [][Next]_vars
SpecRun == InitRun /\ [][Next]_vars

-----------------------------------------------------------------------------
(* Vocabulary of the properties: what is read off a file before and after  *)
(* the run, without the patcher's own operators.                           *)

\* a line without its line terminator
UnCR(line) ==
    IF Len(line) > 0 /\ line[Len(line)] = CR
    THEN SubSeq(line, 1, Len(line) - 1)
    ELSE line

\* a line without trailing blanks and line terminator
Bare(line) ==
    LET keep == {j \in 1..Len(line) : line[j] \notin {SP4, SP, CR}}
    IN  IF keep = {} THEN <<>> ELSE SubSeq(line, 1, CHOOSE m \in keep : \A j \in keep : j <= m)

ToLF(T) == [j \in 1..Len(T) |-> UnCR(T[j])]

AllLF(T) == \A j \in 1..Len(T) : \A a \in 1..Len(T[j]) : T[j][a] # CR

AllCRLF(T) ==
    /\ Len(T) > 1
    /\ \A j \in 1..Len(T) :
          /\ (j < Len(T)) = (Len(T[j]) > 0 /\ T[j][Len(T[j])] = CR)
          /\ \A a \in 1..(Len(T[j]) - 1) : T[j][a] # CR

HasMarker(T) ==
    \E j \in 1..Len(T) : \E a \in 1..Len(T[j]) :
        T[j][a] = ".implements Ljavax/net/ssl/X509TrustManager;"

\* the q-th smallest element of a set of numbers
Nth(S, q) == CHOOSE x \in S : Cardinality({y \in S : y < x}) = q - 1

\* the lines of T that declare target method p, with or without `final`
Declared(T, p) ==
    {i \in 1..Len(T) : UnCR(T[i]) \in {Header(p), FinalHeader(p)}}

DeclaredAt(T) == Declared(T, 1) \cup Declared(T, 2) \cup Declared(T, 3)

SigAt(T, i) == CHOOSE p \in 1..3 : i \in Declared(T, p)

\* the `.end method` line of the method declared at line i, and its body
EndOf(T, i) == Min({k \in (i + 1)..Len(T) : UnCR(T[k]) = <<END_METHOD>>})
BodyOf(T, i) == SubSeq(T, i + 1, EndOf(T, i) - 1)

InsertedAt(T) ==
    {j \in 1..Len(T) :
        Bare(T[j]) = <<SP4, "#", SP, "inserted by apk-mitm to disable certificate pinning">>}

CommentedAt(T) ==
    {j \in 1..Len(T) :
        Bare(T[j]) = <<SP4, "#", SP, "commented out by apk-mitm to disable old method body">>}

\* the replacement instructions each policy stands for
VoidPolicy == << <<SP4, ".locals 0">>, <<SP4, "return-void">> >>

EmptyArrayPolicy ==
    << <<SP4, ".locals 1">>,
       <<SP4, "const/4 v0, 0x0">>,
       <<SP4, "new-array v0, v0, [Ljava/security/cert/X509Certificate;">>,
       <<SP4, "return-object v0">> >>

PolicyOf(p) == IF p = 3 THEN EmptyArrayPolicy ELSE VoidPolicy

\* a body line as a comment: indentation of four removed, comment prefix
\* added, trailing blanks trimmed
AsComment(line) ==
    LET rest == Bare(IF Len(line) > 0 /\ line[1] = SP4 THEN Tail(line) ELSE line)
    IN  IF rest = <<>> THEN <<SP4, "#">> ELSE <<SP4, "#", SP>> \o rest

BareLines(T, a, b) == [j \in 1..(b - a + 1) |-> Bare(T[a + j - 1])]

-----------------------------------------------------------------------------
(* C1 *)

\* C1 (idempotence): running the patch step on the content a first run
\* produced reports no change.
C1_Idempotent ==
    \A f \in Files :
        results[f] = "true" => ~PatchResult(disk[f], os).changed

-----------------------------------------------------------------------------
(* C2 *)

\* C2 (selective patching): a candidate file that declares checkServerTrusted
\* and neither other target method is reported changed, holds exactly one
\* patched block, and every line outside that method is identical to the
\* input, in the same order.
C2_SelectivePatching ==
    \A f \in Files :
        ( /\ results[f] # "none"
          /\ HasMarker(input[f])
          /\ Cardinality(Declared(input[f], 2)) = 1
          /\ Declared(input[f], 1) = {}
          /\ Declared(input[f], 3) = {} )
        => LET inp == input[f]
               out == disk[f]
               h == Nth(Declared(inp, 2), 1)
               after == Len(inp) - EndOf(inp, h)
           IN  /\ results[f] = "true"
               /\ Cardinality(InsertedAt(out)) = 1
               /\ Len(out) >= Len(inp)
               /\ SubSeq(out, 1, h - 1) = SubSeq(inp, 1, h - 1)
               /\ SubSeq(out, Len(out) - after + 1, Len(out))
                     = SubSeq(inp, Len(inp) - after + 1, Len(inp))

-----------------------------------------------------------------------------
(* C3 *)

\* C3 (line endings): a written file keeps the line-ending convention of the
\* content that was read: all LF stays all LF, all CRLF stays all CRLF, on
\* either host.
C3_LineEndingsPreserved ==
    \A f \in Files :
        writes[f] > 0 =>
            /\ AllLF(input[f]) => AllLF(disk[f])
            /\ AllCRLF(input[f]) => AllCRLF(disk[f])

-----------------------------------------------------------------------------
(* C4 *)

SameAsWithLF(f) ==
    LET lf == PatchResult(ToLF(input[f]), os)
    IN  /\ (results[f] = "true") = lf.changed
        /\ Len(matches[f]) = Len(lf.matches)
        /\ \A q \in 1..Len(matches[f]) :
              /\ matches[f][q].pattern = lf.matches[q].pattern
              /\ Len(matches[f][q].body) = Len(lf.matches[q].body)

\* C4 (matching on LF-normalized text): on whatever host, a CRLF file is
\* matched and reported changed exactly as the same file with LF endings is.
C4_MatchedOnAnyHost ==
    \A f \in Files :
        (results[f] # "none" /\ AllCRLF(input[f])) => SameAsWithLF(f)

-----------------------------------------------------------------------------
(* C5 *)

\* C5 (policy): in a written file every inserted block stands under a target
\* header and holds the instructions of that header's signature:
\* getAcceptedIssuers the empty-array return, checkClientTrusted and
\* checkServerTrusted (final or not) the void return; one block per match.
C5_PolicyBySignature ==
    \A f \in Files :
        results[f] = "true" =>
            LET out == disk[f]
            IN  /\ Cardinality(InsertedAt(out)) = Len(matches[f])
                /\ \A j \in InsertedAt(out) :
                      /\ j > 1
                      /\ (j - 1) \in DeclaredAt(out)
                      /\ LET p == SigAt(out, j - 1)
                             n == IF p = 3 THEN 4 ELSE 2
                         IN  /\ j + n + 1 <= Len(out)
                             /\ BareLines(out, j + 1, j + n) = PolicyOf(p)
                             /\ Bare(out[j + n + 1]) = <<>>

C5_Witness ==
    \E f \in Files :
        /\ results[f] = "true"
        /\ \E j \in InsertedAt(disk[f]) : UnCR(disk[f][j - 1]) = Header(3)
        /\ \E j \in InsertedAt(disk[f]) : UnCR(disk[f][j - 1]) = FinalHeader(2)

-----------------------------------------------------------------------------
(* C6 *)

\* C6 (body preservation): for every matched method, the lines between its
\* 'commented out' marker and its `.end method` are, after one empty comment
\* line, exactly the lines of the original body as comments, in order.
C6_BodyPreserved ==
    \A f \in Files :
        results[f] = "true" =>
            LET inp == input[f]
                out == disk[f]
                decls == DeclaredAt(inp)
                coms == CommentedAt(out)
            IN  /\ Cardinality(coms) = Cardinality(decls)
                /\ \A q \in 1..Cardinality(decls) :
                      LET body == BodyOf(inp, Nth(decls, q))
                          c == Nth(coms, q)
                          e == EndOf(out, c)
                      IN  BareLines(out, c + 2, e - 1)
                              = [j \in 1..Len(body) |-> AsComment(body[j])]

C6_Witness ==
    \E f \in Files :
        /\ results[f] = "true"
        /\ \E i \in DeclaredAt(input[f]) : Len(BodyOf(input[f], i)) = 3
        /\ \E i \in DeclaredAt(input[f]) : Len(BodyOf(input[f], i)) = 1

-----------------------------------------------------------------------------
(* C7 *)

\* the block of the method declared at line i of inp; `filler` are the lines
\* between the 'commented out' marker and the first body comment
BlockOf(inp, i, filler) ==
    LET body == BodyOf(inp, i)
    IN  <<UnCR(inp[i]),
          <<SP4, "#", SP, "inserted by apk-mitm to disable certificate pinning">> >>
        \o PolicyOf(SigAt(inp, i))
        \o << <<>>,
              <<SP4, "#", SP, "commented out by apk-mitm to disable old method body">> >>
        \o filler
        \o [j \in 1..Len(body) |-> AsComment(body[j])]
        \o << <<END_METHOD>> >>

LayoutIs(f, filler) ==
    LET inp == input[f]
        out == disk[f]
        decls == DeclaredAt(inp)
        marks == InsertedAt(out)
        nVoid == Cardinality(Declared(inp, 1)) + Cardinality(Declared(inp, 2))
        nArray == Cardinality(Declared(inp, 3))
        perBlock == 2 + 1 + Len(filler)
    IN  /\ Cardinality(marks) = Cardinality(decls)
        /\ Len(out) = Len(inp) + nVoid * (perBlock + 2) + nArray * (perBlock + 4)
        /\ \A q \in 1..Cardinality(decls) :
              LET block == BlockOf(inp, Nth(decls, q), filler)
                  j == Nth(marks, q)
              IN  /\ j + Len(block) - 2 <= Len(out)
                  /\ BareLines(out, j - 1, j + Len(block) - 2) = block

\* C7 as stated: the block is header, 'inserted by' marker, replacement
\* instructions, blank line, 'commented out' marker, the n body comments,
\* terminator; the line count grows by two markers, the instructions and one
\* separator per patched method, and by nothing else.
C7_LayoutAsStated ==
    \A f \in Files : results[f] = "true" => LayoutIs(f, <<>>)

\* C7 (amended): as stated, with one empty comment line (`#`) between the
\* 'commented out' marker and the body comments, so the line count grows by
\* two markers, the instructions, one separator and one empty comment line
\* per patched method.
C7_LayoutWithEmptyComment ==
    \A f \in Files : results[f] = "true" => LayoutIs(f, << <<SP4, "#">> >>)

C7_Witness ==
    \E f \in Files :
        /\ results[f] = "true"
        /\ Cardinality(DeclaredAt(input[f])) = 2
        /\ Declared(input[f], 3) # {}
        /\ Len(disk[f]) = Len(input[f]) + 14

-----------------------------------------------------------------------------
(* C8 *)

Count(s, x) == Cardinality({j \in 1..Len(s) : s[j] = x})

\* C8 (aggregate signal): task.skip is called iff every file returned false,
\* and only once every enumerated file has been processed; 'Applied patch
\* in' is emitted once for each file that returned true and for no other,
\* after 'Scanning Smali files...'.
C8_AggregateSignal ==
    /\ skipped => /\ pc = "done"
                  /\ pending = {}
                  /\ \A f \in Files : results[f] = "false"
    /\ pc = "done" => /\ \A f \in Files : results[f] # "none"
                      /\ skipped = (\A f \in Files : results[f] = "false")
                      /\ \A f \in Files :
                            Count(log, <<"Applied patch in", f>>)
                                = IF results[f] = "true" THEN 1 ELSE 0
    /\ \A f \in Files :
          /\ Count(log, <<"Applied patch in", f>>) <= 1
          /\ Count(log, <<"Applied patch in", f>>) = 1 => results[f] = "true"
    /\ log # <<>> => /\ log[1] = <<"Scanning Smali files...">>
                     /\ Count(log, <<"Scanning Smali files...">>) = 1

C8_Witness ==
    /\ pc = "done"
    /\ ~skipped
    /\ \E f \in Files : results[f] = "true"
    /\ \E f \in Files : results[f] = "false"
    /\ Len(log) = 2

-----------------------------------------------------------------------------
(* C9 *)

\* C9 (write discipline): a file is read once and written at most once, never
\* written before it is read, written iff processSmaliFile returns true, and
\* never written when it lacks the interface marker or declares none of the
\* three target methods.
C9_WriteDiscipline ==
    \A f \in Files :
        /\ reads[f] <= 1
        /\ writes[f] <= reads[f]
        /\ results[f] # "none" => /\ reads[f] = 1
                                  /\ (writes[f] = 1) = (results[f] = "true")
        /\ (~HasMarker(input[f]) \/ DeclaredAt(input[f]) = {})
              => writes[f] = 0 /\ disk[f] = input[f]

C9_Witness ==
    \E f \in Files :
        /\ reads[f] = 1
        /\ writes[f] = 1
        /\ results[f] = "true"
        /\ disk[f] # input[f]

-----------------------------------------------------------------------------
(* C10 *)

IsMethodHeader(line) == \E a \in 1..Len(line) : line[a] = METHOD_PUBLIC

BoundedCapture(f) ==
    \A q \in 1..Len(matches[f]) :
        LET m == matches[f][q]
        IN  /\ \A j \in 1..Len(m.body) :
                  /\ ~StartsWithEnd(m.body[j])
                  /\ ~IsMethodHeader(m.body[j])
            /\ ~m.overlap
            /\ ~m.midline

\* every method header is followed by a body of at least one character that
\* holds no `.end method` line and no method header, then by `.end method`
WellFormed(T) ==
    \A i \in 1..Len(T) :
        IsMethodHeader(T[i]) =>
            /\ Len(T[i]) > 0 /\ T[i][1] = METHOD_PUBLIC
            /\ \E k \in (i + 2)..Len(T) :
                  /\ StartsWithEnd(T[k])
                  /\ ~(k = i + 2 /\ T[i + 1] = <<>>)
                  /\ \A j \in (i + 1)..(k - 1) :
                        ~StartsWithEnd(T[j]) /\ ~IsMethodHeader(T[j])

====
